---- MODULE Spec2Model ----
(***************************************************************************)
(* A model of SpineDebugRenderer (packages/base/src/SpineDebugRenderer.ts): *)
(* the registration map from spine objects to their debug display objects,  *)
(* the scene-graph objects the renderer creates (containers and graphics),  *)
(* and the per-frame drawing routine renderDebug with its drawing helpers.  *)
(*                                                                         *)
(* A Graphics object is modelled by the sequence of drawing commands issued *)
(* on it since its last clear(); a command is a tuple whose first element  *)
(* is the name of the PixiJS method.  Coordinates are integers.            *)
(***************************************************************************)
EXTENDS Integers, Sequences, FiniteSets, TLC

\* ------------------------------------------------------------------ bounds

\* The number of DebugDisplayObjects bundles the model lets the renderer create.
MaxObjects == 3

\* The number of toggles that may be switched off at the same time.
MaxTogglesOff == 2

\* ------------------------------------------------- configuration constants

lineWidth == 1
regionAttachmentsColor == 30975
meshHullColor == 30975
meshTrianglesColor == 16763904
clippingPolygonColor == 16711935
boundingBoxesRectColor == 65280
boundingBoxesPolygonColor == 65280
boundingBoxesCircleColor == 65280
pathsCurveColor == 16711680
pathsLineColor == 16711935
skeletonXYColor == 16711680
bonesColor == 61132

\* The boolean fields of the renderer.
Toggles ==
    {"drawDebug", "drawMeshHull", "drawMeshTriangles", "drawBones", "drawPaths",
     "drawBoundingBoxes", "drawClipping", "drawRegionAttachments"}

\* The fields as the constructor leaves them: every toggle is true.
DefaultConfig == [t \in Toggles |-> TRUE]

\* ------------------------------------------------------------ pose data
\* The skeleton is maintained by the animation runtime; the renderer only
\* reads it.  A bone is [name, hasParent, length, a, b, tx, ty]; a slot is
\* [boneActive, attachment]; polygons are the polygons of SkeletonBoundsBase
\* (one array of coordinates per bounding-box attachment) and boundsRect the
\* box <<minX, minY, width, height>> it computed.

Spines == {"s1", "s2"}

NoAttachment == [type |-> "null"]

Bone(name, hasParent, length, a, b, tx, ty) ==
    [name |-> name, hasParent |-> hasParent, length |-> length,
     a |-> a, b |-> b, tx |-> tx, ty |-> ty]

Slot(boneActive, attachment) ==
    [boneActive |-> boneActive, attachment |-> attachment]

RegionAttachment(hasUpdateOffset, world) ==
    [type |-> "Region", hasUpdateOffset |-> hasUpdateOffset, world |-> world]

MeshAttachment(world, triangles, hullLength) ==
    [type |-> "Mesh", world |-> world, triangles |-> triangles,
     hullLength |-> hullLength]

ClippingAttachment(world) == [type |-> "Clipping", world |-> world]

PathAttachment(closed, world) ==
    [type |-> "Path", closed |-> closed, world |-> world]

\* The bones of the skeleton: the structure is the same in every pose, the
\* world matrix of "hip" is what a pose changes.
SkeletonBones(a, b, tx, ty) ==
    << Bone("root", FALSE, 0, 1, 0, 0, 0),
       Bone("hip", TRUE, 10, a, b, tx, ty),
       Bone("tail", TRUE, 0, 1, 0, 3, 4),
       Bone("prop", FALSE, 5, 0, 1, 1, 1) >>

Quad == <<0, 0, 4, 0, 4, 4, 0, 4>>
OpenPath == <<0, 0, 1, 1, 2, 2, 3, 3, 4, 4, 5, 5, 6, 6, 7, 7, 8, 8>>
ClosedPath == <<9, 9, 1, 0, 2, 0, 3, 0, 4, 0, 5, 0, 6, 0, 7, 0, 8, 8>>
ShortPath == <<0, 0, 1, 2, 3, 3, 4, 4, 5, 6, 7, 7>>
LongClosedPath ==
    <<0, 1, 2, 1, 3, 1, 4, 2, 5, 2, 6, 2, 7, 3, 8, 3, 9, 3, 1, 4, 2, 4, 3, 4>>

Skeleton(bones, slots, polygons, boundsRect, scaleX, scaleY) ==
    [x |-> 0, y |-> 0, bones |-> bones, slots |-> slots,
     polygons |-> polygons, boundsRect |-> boundsRect,
     scaleX |-> scaleX, scaleY |-> scaleY]

\* A region (current runtime), a mesh and a well-formed bounding box.
PoseRest ==
    Skeleton(SkeletonBones(1, 1, 2, 3),
             << Slot(TRUE, RegionAttachment(TRUE, Quad)),
                Slot(TRUE, MeshAttachment(<<0, 0, 4, 0, 4, 4, 0, 4>>,
                                          <<0, 1, 2, 2, 3, 0>>, 8)),
                Slot(TRUE, NoAttachment) >>,
             << <<0, 0, 4, 0, 2, 3>> >>, <<0, 0, 4, 3>>, 1, 1)

\* Paths of 2, 3 and 4 knots (open, closed, and one on an inactive bone), a
\* clipping polygon; the hip bone is scaled to nothing.
PosePaths ==
    Skeleton(SkeletonBones(0, 0, 2, 3),
             << Slot(TRUE, PathAttachment(FALSE, OpenPath)),
                Slot(TRUE, PathAttachment(TRUE, ClosedPath)),
                Slot(FALSE, PathAttachment(FALSE, OpenPath)),
                Slot(TRUE, ClippingAttachment(<<1, 1, 5, 1, 3, 4>>)),
                Slot(TRUE, PathAttachment(FALSE, ShortPath)),
                Slot(TRUE, PathAttachment(TRUE, LongClosedPath)),
                Slot(FALSE, MeshAttachment(<<0, 0, 4, 0, 4, 4>>,
                                           <<0, 1, 2>>, 6)) >>,
             << >>, <<0, 0, 0, 0>>, 0, 1)

\* A region attachment of a runtime version that has no updateOffset.
PoseOldRuntime ==
    Skeleton(SkeletonBones(-1, 1, 5, 5),
             << Slot(TRUE, RegionAttachment(TRUE, Quad)),
                Slot(TRUE, RegionAttachment(FALSE, <<1, 1, 3, 1, 3, 3, 1, 3>>)) >>,
             << >>, <<0, 0, 0, 0>>, 1, 1)

\* A bounding box of two vertices after a well-formed one.
PoseThinBox ==
    Skeleton(SkeletonBones(0, -1, 2, 3),
             << Slot(TRUE, RegionAttachment(TRUE, Quad)) >>,
             << <<0, 0, 4, 0, 2, 3>>, <<1, 1, 6, 6>> >>, <<0, 0, 6, 6>>, 1, 1)

\* A bounding box of a single vertex.
PoseDotBox ==
    Skeleton(SkeletonBones(1, 0, 2, 3),
             << Slot(TRUE, ClippingAttachment(<<1, 1, 5, 1, 3, 4>>)),
                Slot(TRUE, RegionAttachment(TRUE, Quad)) >>,
             << <<7, 7>> >>, <<7, 7, 0, 0>>, 1, 1)

\* The state keeps the name of the pose of each spine; SkeletonOf gives the
\* skeleton data of that pose.
Poses == {"rest", "paths", "oldRuntime", "thinBox", "dotBox"}

SkeletonOf(pose) ==
    CASE pose = "rest" -> PoseRest
      [] pose = "paths" -> PosePaths
      [] pose = "oldRuntime" -> PoseOldRuntime
      [] pose = "thinBox" -> PoseThinBox
      [] pose = "dotBox" -> PoseDotBox

\* --------------------------------------------------- display objects
\* One DebugDisplayObjects bundle: the parent container, the bones container
\* (its children are the bone graphics) and the ten Graphics.  spine is the
\* object registerSpine created it for, attached whether parentDebugContainer
\* is a child of that spine, destroyed whether destroy() ran on it.

Surfaces ==
    {"skeletonXY", "regionAttachmentsShape", "meshTrianglesLine", "meshHullLine",
     "clippingPolygon", "boundingBoxesRect", "boundingBoxesCircle",
     "boundingBoxesPolygon", "pathsCurve", "pathsLine"}

NewDebugDisplayObjects(spine) ==
    [spine |-> spine, attached |-> FALSE, destroyed |-> FALSE,
     bones |-> << >>,
     skeletonXY |-> << >>, regionAttachmentsShape |-> << >>,
     meshTrianglesLine |-> << >>, meshHullLine |-> << >>,
     clippingPolygon |-> << >>, boundingBoxesRect |-> << >>,
     boundingBoxesCircle |-> << >>, boundingBoxesPolygon |-> << >>,
     pathsCurve |-> << >>, pathsLine |-> << >>]

\* Container.destroy({children: true}): the container leaves its parent and
\* every descendant is destroyed, which empties the bones container and
\* disposes the geometry of each Graphics.
DestroyContainer(d) ==
    [NewDebugDisplayObjects(d.spine) EXCEPT !.attached = FALSE, !.destroyed = TRUE]

\* Graphics.clear(): the geometry and the line and fill styles are reset.
ClearGraphics(d, surface) == [d EXCEPT ![surface] = << >>]

\* One call of a Graphics drawing method.
Cmd(d, surface, command) == [d EXCEPT ![surface] = Append(@, command)]

\* The outcome of a call: the display objects as the call left them and the
\* error it threw ("none" when it returned).
Outcome(d, err) == [d |-> d, err |-> err]

Abs(n) == IF n < 0 THEN -n ELSE n

\* ------------------------------------------------------------ drawBonesFunc

\* The if-chain that picks the rotation of a bone graphic; B stands for the
\* angle the code computes with acos.
BoneRotation(starX, starY, endX, endY) ==
    IF starX < endX /\ starY < endY THEN "-B+180rad"
    ELSE IF starX > endX /\ starY < endY THEN "180rad+B"
    ELSE IF starX > endX /\ starY > endY THEN "-B"
    ELSE IF starX < endX /\ starY > endY THEN "B"
    ELSE IF starY = endY /\ starX < endX THEN "90rad"
    ELSE IF starY = endY /\ starX > endX THEN "-90rad"
    ELSE IF starX = endX /\ starY < endY THEN "180rad"
    ELSE "0"

\* The Graphics made for one bone: its position, the square of the segment
\* length c (pivot.y is c), its rotation and its fill colour.
BoneGraphic(starX, starY, endX, endY) ==
    [x |-> starX, y |-> starY,
     c2 |-> Abs(starX - endX) * Abs(starX - endX) + Abs(starY - endY) * Abs(starY - endY),
     rotation |-> BoneRotation(starX, starY, endX, endY),
     fill |-> bonesColor]

\* Whether the loop body of drawBonesFunc reaches "new Graphics()" for a bone:
\* not for the bone named root, not for one without parent, not when c is 0.
BoneIsDrawn(sk, bone) ==
    LET starX == sk.x + bone.tx
        starY == sk.y + bone.ty
        endX == sk.x + bone.length * bone.a + bone.tx
        endY == sk.y + bone.length * bone.b + bone.ty
    IN  /\ ~(bone.name = "root" \/ ~bone.hasParent)
        /\ BoneGraphic(starX, starY, endX, endY).c2 # 0

RECURSIVE BonesLoop(_, _, _)
BonesLoop(sk, i, children) ==
    IF i > Len(sk.bones) THEN children
    ELSE LET bone == sk.bones[i]
             starX == sk.x + bone.tx
             starY == sk.y + bone.ty
             endX == sk.x + bone.length * bone.a + bone.tx
             endY == sk.y + bone.length * bone.b + bone.ty
         IN  IF BoneIsDrawn(sk, bone)
             THEN BonesLoop(sk, i + 1,
                            Append(children, BoneGraphic(starX, starY, endX, endY)))
             ELSE BonesLoop(sk, i + 1, children)

drawBonesFunc(sk, d, lw) ==
    LET d1 == Cmd(d, "skeletonXY", <<"lineStyle", lw, skeletonXYColor, 1>>)
        d2 == [d1 EXCEPT !.bones = BonesLoop(sk, 1, @)]
        startDotSize == lw * 3
        d3 == Cmd(d2, "skeletonXY", <<"moveTo", sk.x - startDotSize, sk.y - startDotSize>>)
        d4 == Cmd(d3, "skeletonXY", <<"lineTo", sk.x + startDotSize, sk.y + startDotSize>>)
        d5 == Cmd(d4, "skeletonXY", <<"moveTo", sk.x + startDotSize, sk.y - startDotSize>>)
        d6 == Cmd(d5, "skeletonXY", <<"lineTo", sk.x - startDotSize, sk.y + startDotSize>>)
    IN  Outcome(d6, "none")

\* ------------------------------------------------ drawRegionAttachmentsFunc

\* "regionAttachment?.updateOffset()" guards the attachment, not the method:
\* calling the missing method throws a TypeError.
RECURSIVE RegionLoop(_, _, _)
RegionLoop(sk, i, d) ==
    IF i > Len(sk.slots) THEN Outcome(d, "none")
    ELSE LET attachment == sk.slots[i].attachment
         IN  IF attachment.type # "Region" THEN RegionLoop(sk, i + 1, d)
             ELSE IF ~attachment.hasUpdateOffset THEN Outcome(d, "TypeError")
             ELSE RegionLoop(sk, i + 1,
                             Cmd(d, "regionAttachmentsShape",
                                 <<"drawPolygon", SubSeq(attachment.world, 1, 8)>>))

drawRegionAttachmentsFunc(sk, d, lw) ==
    RegionLoop(sk, 1,
               Cmd(d, "regionAttachmentsShape",
                   <<"lineStyle", lw, regionAttachmentsColor, 1>>))

\* --------------------------------------------- drawMeshHullAndMeshTriangles

\* The vertex at 0-based index i of a Float32Array.
At(world, i) == world[i + 1]

RECURSIVE TrianglesLoop(_, _, _, _)
TrianglesLoop(vertices, triangles, i, d) ==
    IF i >= Len(triangles) THEN d
    ELSE LET v1 == At(triangles, i) * 2
             v2 == At(triangles, i + 1) * 2
             v3 == At(triangles, i + 2) * 2
             d1 == Cmd(d, "meshTrianglesLine",
                       <<"moveTo", At(vertices, v1), At(vertices, v1 + 1)>>)
             d2 == Cmd(d1, "meshTrianglesLine",
                       <<"lineTo", At(vertices, v2), At(vertices, v2 + 1)>>)
             d3 == Cmd(d2, "meshTrianglesLine",
                       <<"lineTo", At(vertices, v3), At(vertices, v3 + 1)>>)
         IN  TrianglesLoop(vertices, triangles, i + 3, d3)

RECURSIVE HullLoop(_, _, _, _, _, _)
HullLoop(vertices, hullLength, i, lastX, lastY, d) ==
    IF i >= hullLength THEN d
    ELSE LET x == At(vertices, i)
             y == At(vertices, i + 1)
             d1 == Cmd(d, "meshHullLine", <<"moveTo", x, y>>)
             d2 == Cmd(d1, "meshHullLine", <<"lineTo", lastX, lastY>>)
         IN  HullLoop(vertices, hullLength, i + 2, x, y, d2)

\* The body of the slot loop for one mesh attachment.
DrawMesh(cfg, mesh, d) ==
    LET vertices == mesh.world
        d1 == IF cfg["drawMeshTriangles"]
              THEN TrianglesLoop(vertices, mesh.triangles, 0, d)
              ELSE d
        hullLength == (mesh.hullLength \div 2) * 2
    IN  IF cfg["drawMeshHull"] /\ mesh.hullLength > 0
        THEN HullLoop(vertices, hullLength, 0,
                      At(vertices, hullLength - 2), At(vertices, hullLength - 1), d1)
        ELSE d1

RECURSIVE MeshLoop(_, _, _, _)
MeshLoop(cfg, sk, i, d) ==
    IF i > Len(sk.slots) THEN d
    ELSE LET slot == sk.slots[i]
         IN  IF ~slot.boneActive \/ slot.attachment.type # "Mesh"
             THEN MeshLoop(cfg, sk, i + 1, d)
             ELSE MeshLoop(cfg, sk, i + 1, DrawMesh(cfg, slot.attachment, d))

drawMeshHullAndMeshTriangles(cfg, sk, d, lw) ==
    LET d1 == Cmd(d, "meshHullLine", <<"lineStyle", lw, meshHullColor, 1>>)
        d2 == Cmd(d1, "meshTrianglesLine", <<"lineStyle", lw, meshTrianglesColor, 1>>)
    IN  Outcome(MeshLoop(cfg, sk, 1, d2), "none")

\* --------------------------------------------------------- drawClippingFunc

RECURSIVE ClippingLoop(_, _, _)
ClippingLoop(sk, i, d) ==
    IF i > Len(sk.slots) THEN d
    ELSE LET slot == sk.slots[i]
         IN  IF ~slot.boneActive \/ slot.attachment.type # "Clipping"
             THEN ClippingLoop(sk, i + 1, d)
             ELSE ClippingLoop(sk, i + 1,
                               Cmd(d, "clippingPolygon",
                                   <<"drawPolygon", slot.attachment.world>>))

drawClippingFunc(sk, d, lw) ==
    Outcome(ClippingLoop(sk, 1,
                         Cmd(d, "clippingPolygon",
                             <<"lineStyle", lw, clippingPolygonColor, 1>>)),
            "none")

\* ---------------------------------------------------- drawBoundingBoxesFunc

\* The guard of the inner drawPolygon: it throws when count is below 3.  The
\* caller passes polygon.length, the number of coordinates, as count.
PolygonCountTooSmall(count) == count < 3

\* The loop of drawPolygon over the coordinates of one polygon: a circle per
\* vertex, and the vertex pushed to paths.
RECURSIVE PolygonNodesLoop(_, _, _, _)
PolygonNodesLoop(polygonVertices, i, dotSize, d) ==
    IF i >= Len(polygonVertices) THEN d
    ELSE LET x1 == At(polygonVertices, i)
             y1 == At(polygonVertices, i + 1)
             d1 == Cmd(d, "boundingBoxesCircle", <<"lineStyle", 0>>)
             d2 == Cmd(d1, "boundingBoxesCircle", <<"beginFill", boundingBoxesCircleColor>>)
             d3 == Cmd(d2, "boundingBoxesCircle", <<"drawCircle", x1, y1, dotSize>>)
             d4 == Cmd(d3, "boundingBoxesCircle", <<"endFill">>)
         IN  PolygonNodesLoop(polygonVertices, i + 2, dotSize, d4)

\* The inner function drawPolygon(polygonVertices, _offset, count).
DrawBoundingPolygon(polygonVertices, count, d, lw) ==
    LET d1 == Cmd(d, "boundingBoxesPolygon",
                  <<"lineStyle", lw, boundingBoxesPolygonColor, 1>>)
        d2 == Cmd(d1, "boundingBoxesPolygon",
                  <<"beginFill", boundingBoxesPolygonColor>>)
    IN  IF PolygonCountTooSmall(count) THEN Outcome(d2, "Error")
        ELSE LET d3 == PolygonNodesLoop(polygonVertices, 0, lw * 2, d2)
                 d4 == Cmd(d3, "boundingBoxesPolygon",
                           <<"drawPolygon", polygonVertices>>)
             IN  Outcome(Cmd(d4, "boundingBoxesPolygon", <<"endFill">>), "none")

RECURSIVE PolygonsLoop(_, _, _, _)
PolygonsLoop(polygons, i, d, lw) ==
    IF i > Len(polygons) THEN Outcome(d, "none")
    ELSE LET polygon == polygons[i]
             r == DrawBoundingPolygon(polygon, Len(polygon), d, lw)
         IN  IF r.err # "none" THEN r
             ELSE PolygonsLoop(polygons, i + 1, r.d, lw)

drawBoundingBoxesFunc(sk, d, lw) ==
    LET d1 == Cmd(d, "boundingBoxesRect",
                  <<"lineStyle", lw, boundingBoxesRectColor, 5>>)
        d2 == Cmd(d1, "boundingBoxesRect",
                  <<"drawRect", sk.boundsRect[1], sk.boundsRect[2],
                    sk.boundsRect[3], sk.boundsRect[4]>>)
    IN  PolygonsLoop(sk.polygons, 1, d2, lw)

\* ------------------------------------------------------------ drawPathsFunc

\* One Bezier curve on pathsCurve and its two handle lines on pathsLine.
CurveAndHandles(d, x1, y1, cx1, cy1, cx2, cy2, x2, y2) ==
    LET d1 == Cmd(d, "pathsCurve", <<"moveTo", x1, y1>>)
        d2 == Cmd(d1, "pathsCurve", <<"bezierCurveTo", cx1, cy1, cx2, cy2, x2, y2>>)
        d3 == Cmd(d2, "pathsLine", <<"moveTo", x1, y1>>)
        d4 == Cmd(d3, "pathsLine", <<"lineTo", cx1, cy1>>)
        d5 == Cmd(d4, "pathsLine", <<"moveTo", x2, y2>>)
    IN  Cmd(d5, "pathsLine", <<"lineTo", cx2, cy2>>)

\* PathCurvesLoop without "x1 = x2; y1 = y2" at the end of the loop body.
RECURSIVE PathCurvesLoop_NoAdvance(_, _, _, _, _, _)
PathCurvesLoop_NoAdvance(world, nn, ii, x1, y1, d) ==
    IF ii >= nn THEN d
    ELSE LET x2 == At(world, ii + 4)
             y2 == At(world, ii + 5)
         IN  PathCurvesLoop_NoAdvance(world, nn, ii + 6, x1, y1,
                            CurveAndHandles(d, x1, y1, At(world, ii), At(world, ii + 1),
                                            At(world, ii + 2), At(world, ii + 3), x2, y2))

RECURSIVE PathCurvesLoop(_, _, _, _, _, _)
PathCurvesLoop(world, nn, ii, x1, y1, d) ==
    IF ii >= nn THEN d
    ELSE LET x2 == At(world, ii + 4)
             y2 == At(world, ii + 5)
         IN  PathCurvesLoop(world, nn, ii + 6, x2, y2,
                            CurveAndHandles(d, x1, y1, At(world, ii), At(world, ii + 1),
                                            At(world, ii + 2), At(world, ii + 3), x2, y2))

\* The body of the slot loop for one path attachment.
DrawPath(path, d) ==
    LET world == path.world
        nn == Len(world)
        x1 == At(world, 2)
        y1 == At(world, 3)
        d1 == IF path.closed
              THEN CurveAndHandles(d, x1, y1, At(world, 0), At(world, 1),
                                   At(world, nn - 2), At(world, nn - 1),
                                   At(world, nn - 4), At(world, nn - 3))
              ELSE d
    IN  PathCurvesLoop(world, nn - 4, 4, x1, y1, d1)

RECURSIVE PathsLoop(_, _, _)
PathsLoop(sk, i, d) ==
    IF i > Len(sk.slots) THEN d
    ELSE LET slot == sk.slots[i]
         IN  IF ~slot.boneActive \/ slot.attachment.type # "Path"
             THEN PathsLoop(sk, i + 1, d)
             ELSE PathsLoop(sk, i + 1, DrawPath(slot.attachment, d))

drawPathsFunc(sk, d, lw) ==
    LET d1 == Cmd(d, "pathsCurve", <<"lineStyle", lw, pathsCurveColor, 1>>)
        d2 == Cmd(d1, "pathsLine", <<"lineStyle", lw, pathsLineColor, 1>>)
    IN  Outcome(PathsLoop(sk, 1, d2), "none")

\* ------------------------------------------------------------------ state

VARIABLES
    registeredSpines,   \* the Map: spine -> index of its bundle in objects, or NoEntry
    objects,            \* every DebugDisplayObjects bundle created so far, in order
    config,             \* the boolean fields of the renderer
    skeleton,           \* spine -> the pose the runtime last computed for spine.skeleton
    last                \* the last call made: what it was and how it ended

vars == <<registeredSpines, objects, config, skeleton, last>>

NoEntry == 0

Call(op, spine, err, warned, wasRegistered, created) ==
    [op |-> op, spine |-> spine, err |-> err, warned |-> warned,
     wasRegistered |-> wasRegistered, created |-> created]

\* Map.has(spine)
Has(reg, spine) == reg[spine] # NoEntry

\* ---------------------------------------------------------- registerSpine

\* The statements of registerSpine after the warning: a new bundle is made,
\* its parent container is added to the spine and the map entry is set.
RegisterEffect(reg, objs, spine) ==
    [reg |-> [reg EXCEPT ![spine] = Len(objs) + 1],
     objs |-> Append(objs, [NewDebugDisplayObjects(spine) EXCEPT !.attached = TRUE])]

registerSpine(spine) ==
    /\ Len(objects) < MaxObjects
    /\ LET r == RegisterEffect(registeredSpines, objects, spine)
       IN  /\ registeredSpines' = r.reg
           /\ objects' = r.objs
           /\ last' = Call("registerSpine", spine, "none",
                           Has(registeredSpines, spine),
                           Has(registeredSpines, spine),
                           Len(r.objs) - Len(objects))
    /\ UNCHANGED <<config, skeleton>>

\* -------------------------------------------------------- unregisterSpine

\* unregisterSpine warns when the spine is not in the map and goes on:
\* Map.get returns undefined and reading parentDebugContainer of it throws a
\* TypeError before anything is changed.
UnregisterEffect(reg, objs, spine) ==
    IF ~Has(reg, spine)
    THEN [reg |-> reg, objs |-> objs, err |-> "TypeError"]
    ELSE [reg |-> [reg EXCEPT ![spine] = NoEntry],
          objs |-> [objs EXCEPT ![reg[spine]] = DestroyContainer(@)],
          err |-> "none"]

unregisterSpine(spine) ==
    /\ LET r == UnregisterEffect(registeredSpines, objects, spine)
       IN  /\ registeredSpines' = r.reg
           /\ objects' = r.objs
           /\ last' = Call("unregisterSpine", spine, r.err,
                           ~Has(registeredSpines, spine),
                           Has(registeredSpines, spine), 0)
    /\ UNCHANGED <<config, skeleton>>

\* ------------------------------------------------------------ renderDebug

\* ClearSurfaces with the clear() of pathsCurve left out.
ClearSurfaces_NoPathsCurve(d) ==
    LET d1 == ClearGraphics(d, "skeletonXY")
        d2 == ClearGraphics(d1, "regionAttachmentsShape")
        d3 == ClearGraphics(d2, "meshTrianglesLine")
        d4 == ClearGraphics(d3, "meshHullLine")
        d5 == ClearGraphics(d4, "clippingPolygon")
        d6 == ClearGraphics(d5, "boundingBoxesRect")
        d7 == ClearGraphics(d6, "boundingBoxesCircle")
        d8 == ClearGraphics(d7, "boundingBoxesPolygon")
    IN  ClearGraphics(d8, "pathsLine")

\* The ten clear() calls at the top of renderDebug.
ClearSurfaces(d) ==
    LET d1 == ClearGraphics(d, "skeletonXY")
        d2 == ClearGraphics(d1, "regionAttachmentsShape")
        d3 == ClearGraphics(d2, "meshTrianglesLine")
        d4 == ClearGraphics(d3, "meshHullLine")
        d5 == ClearGraphics(d4, "clippingPolygon")
        d6 == ClearGraphics(d5, "boundingBoxesRect")
        d7 == ClearGraphics(d6, "boundingBoxesCircle")
        d8 == ClearGraphics(d7, "boundingBoxesPolygon")
        d9 == ClearGraphics(d8, "pathsCurve")
    IN  ClearGraphics(d9, "pathsLine")

\* DestroyBoneGraphics with the loop ending one child early (len > 1).
RECURSIVE DestroyBoneGraphics_KeepFirst(_, _)
DestroyBoneGraphics_KeepFirst(children, len) ==
    IF len > 1
    THEN DestroyBoneGraphics_KeepFirst(SubSeq(children, 1, len - 1) \o
                                       SubSeq(children, len + 1, Len(children)), len - 1)
    ELSE children

\* The loop that destroys the children of the bones container from the last
\* to the first; a destroyed child leaves its parent.
RECURSIVE DestroyBoneGraphics(_, _)
DestroyBoneGraphics(children, len) ==
    IF len > 0
    THEN DestroyBoneGraphics(SubSeq(children, 1, len - 1) \o
                             SubSeq(children, len + 1, Len(children)), len - 1)
    ELSE children

\* spine.scale.x || spine.scale.y || 1
Scale(sk) ==
    IF sk.scaleX # 0 THEN sk.scaleX ELSE IF sk.scaleY # 0 THEN sk.scaleY ELSE 1

\* DrawEnabled with the clipping polygon drawn whatever drawClipping is.
DrawEnabled_ClippingAlways(cfg, sk, d, lw) ==
    LET r1 == IF cfg["drawBones"] THEN drawBonesFunc(sk, d, lw) ELSE Outcome(d, "none")
        r2 == IF r1.err = "none" /\ cfg["drawPaths"]
              THEN drawPathsFunc(sk, r1.d, lw) ELSE r1
        r3 == IF r2.err = "none" /\ cfg["drawBoundingBoxes"]
              THEN drawBoundingBoxesFunc(sk, r2.d, lw) ELSE r2
        r4 == IF r3.err = "none"
              THEN drawClippingFunc(sk, r3.d, lw) ELSE r3
        r5 == IF r4.err = "none" /\ (cfg["drawMeshHull"] \/ cfg["drawMeshTriangles"])
              THEN drawMeshHullAndMeshTriangles(cfg, sk, r4.d, lw) ELSE r4
    IN  IF r5.err = "none" /\ cfg["drawRegionAttachments"]
        THEN drawRegionAttachmentsFunc(sk, r5.d, lw) ELSE r5

\* DrawEnabled with every draw call also under the drawDebug field.
DrawEnabled_UnderDrawDebug(cfg, sk, d, lw) ==
    LET on == cfg["drawDebug"]
        r1 == IF on /\ cfg["drawBones"]
              THEN drawBonesFunc(sk, d, lw) ELSE Outcome(d, "none")
        r2 == IF on /\ r1.err = "none" /\ cfg["drawPaths"]
              THEN drawPathsFunc(sk, r1.d, lw) ELSE r1
        r3 == IF on /\ r2.err = "none" /\ cfg["drawBoundingBoxes"]
              THEN drawBoundingBoxesFunc(sk, r2.d, lw) ELSE r2
        r4 == IF on /\ r3.err = "none" /\ cfg["drawClipping"]
              THEN drawClippingFunc(sk, r3.d, lw) ELSE r3
        r5 == IF on /\ r4.err = "none" /\ (cfg["drawMeshHull"] \/ cfg["drawMeshTriangles"])
              THEN drawMeshHullAndMeshTriangles(cfg, sk, r4.d, lw) ELSE r4
    IN  IF on /\ r5.err = "none" /\ cfg["drawRegionAttachments"]
        THEN drawRegionAttachmentsFunc(sk, r5.d, lw) ELSE r5

\* The conditional draw calls of renderDebug, in their order; an error thrown
\* by one of them ends the call and leaves what was drawn until then.
DrawEnabled(cfg, sk, d, lw) ==
    LET r1 == IF cfg["drawBones"] THEN drawBonesFunc(sk, d, lw) ELSE Outcome(d, "none")
        r2 == IF r1.err = "none" /\ cfg["drawPaths"]
              THEN drawPathsFunc(sk, r1.d, lw) ELSE r1
        r3 == IF r2.err = "none" /\ cfg["drawBoundingBoxes"]
              THEN drawBoundingBoxesFunc(sk, r2.d, lw) ELSE r2
        r4 == IF r3.err = "none" /\ cfg["drawClipping"]
              THEN drawClippingFunc(sk, r3.d, lw) ELSE r3
        r5 == IF r4.err = "none" /\ (cfg["drawMeshHull"] \/ cfg["drawMeshTriangles"])
              THEN drawMeshHullAndMeshTriangles(cfg, sk, r4.d, lw) ELSE r4
    IN  IF r5.err = "none" /\ cfg["drawRegionAttachments"]
        THEN drawRegionAttachmentsFunc(sk, r5.d, lw) ELSE r5

\* renderDebug from "const debugDisplayObjects = ..." on, for the bundle d of
\* the spine.
RenderFrame(cfg, sk, d) ==
    LET d1 == ClearSurfaces(d)
        d2 == [d1 EXCEPT !.bones = DestroyBoneGraphics(@, Len(@))]
    IN  DrawEnabled(cfg, sk, d2, lineWidth \div Scale(sk))

\* EnsureRegistered without the has() test: every frame registers.
EnsureRegistered_Always(reg, objs, spine) == RegisterEffect(reg, objs, spine)

\* The registration renderDebug makes first when the spine is not in the map.
EnsureRegistered(reg, objs, spine) ==
    IF ~Has(reg, spine) THEN RegisterEffect(reg, objs, spine)
    ELSE [reg |-> reg, objs |-> objs]

renderDebug(spine) ==
    /\ Has(registeredSpines, spine) \/ Len(objects) < MaxObjects
    /\ LET e == EnsureRegistered(registeredSpines, objects, spine)
           r == RenderFrame(config, SkeletonOf(skeleton[spine]), e.objs[e.reg[spine]])
       IN  /\ registeredSpines' = e.reg
           /\ objects' = [e.objs EXCEPT ![e.reg[spine]] = r.d]
           /\ last' = Call("renderDebug", spine, r.err, FALSE,
                           Has(registeredSpines, spine),
                           Len(e.objs) - Len(objects))
    /\ UNCHANGED <<config, skeleton>>

\* ------------------------------------------------------------ environment

TogglesOff(cfg) == {t \in Toggles : ~cfg[t]}

\* The application assigns one of the public boolean fields.
setToggle(t) ==
    /\ config[t] => Cardinality(TogglesOff(config)) < MaxTogglesOff
    /\ config' = [config EXCEPT ![t] = ~@]
    /\ last' = Call("setToggle", "none", "none", FALSE, FALSE, 0)
    /\ UNCHANGED <<registeredSpines, objects, skeleton>>

\* The animation runtime updates the skeleton of a spine to another pose.
updateSkeleton(spine, pose) ==
    /\ pose # skeleton[spine]
    /\ skeleton' = [skeleton EXCEPT ![spine] = pose]
    /\ last' = Call("updateSkeleton", spine, "none", FALSE, FALSE, 0)
    /\ UNCHANGED <<registeredSpines, objects, config>>

\* ---------------------------------------------------------- specification

\* The renderer as its constructor leaves it; the skeletons are whatever the
\* runtime has computed for the spines.
Init ==
    /\ registeredSpines = [s \in Spines |-> NoEntry]
    /\ objects = << >>
    /\ config = DefaultConfig
    /\ skeleton \in [Spines -> Poses]
    /\ last = Call("new", "none", "none", FALSE, FALSE, 0)

\* The calls of the ISpineDebugRenderer interface, on any spine.
Next ==
    \/ \E s \in Spines : registerSpine(s)
    \/ \E s \in Spines : unregisterSpine(s)
    \/ \E s \in Spines : renderDebug(s)

Spec == Init /\ [][Next]_vars

\* The frames of one spine: between two renderDebug calls the application may
\* assign the toggles and the runtime may update the skeleton.
FrameSpine == "s1"

InitFrames ==
    /\ Init
    /\ skeleton = [s \in Spines |-> "rest"]

NextFrames ==
    \/ renderDebug(FrameSpine)
    \/ \E t \in Toggles : setToggle(t)
    \/ \E p \in Poses : updateSkeleton(FrameSpine, p)

SpecFrames == InitFrames /\ [][NextFrames]_vars


\* ================================================================ claims

\* The bundle the map holds for a registered spine.
Bundle(spine) == objects[registeredSpines[spine]]

\* The debug containers that are children of the spine.
AttachedTo(spine) ==
    {i \in 1..Len(objects) : objects[i].spine = spine /\ objects[i].attached}

\* The bundles created for the spine that have not been destroyed.
LiveFor(spine) ==
    {i \in 1..Len(objects) : objects[i].spine = spine /\ ~objects[i].destroyed}

\* C1: registerSpine on a spine that is already registered logs a warning and
\* is idempotent: the registration entry of the spine and the set of debug
\* containers attached to it are the same after the call as before it.
C1_ReRegisterIsIdempotent ==
    [][\A s \in Spines :
         (registerSpine(s) /\ Has(registeredSpines, s)) =>
             /\ last'.warned
             /\ registeredSpines'[s] = registeredSpines[s]
             /\ AttachedTo(s)' = AttachedTo(s)]_vars

\* C2: unregisterSpine on a spine that is not registered logs a warning and
\* returns without raising an error, and leaves the registration map and the
\* drawing surfaces of every registered spine unchanged.
C2_UnregisterUnknownReturns ==
    [][\A s \in Spines :
         (unregisterSpine(s) /\ ~Has(registeredSpines, s)) =>
             /\ last'.warned
             /\ last'.err = "none"
             /\ registeredSpines' = registeredSpines
             /\ objects' = objects]_vars

\* C3: once unregisterSpine(s) has returned for a registered spine s, s is not
\* in the registration map and every bundle the renderer ever created for s
\* is destroyed and none is attached to s.
C3_UnregisterReleasesAll ==
    (last.op = "unregisterSpine" /\ last.wasRegistered /\ last.err = "none") =>
        /\ ~Has(registeredSpines, last.spine)
        /\ LiveFor(last.spine) = {}
        /\ AttachedTo(last.spine) = {}

\* C4: in every reachable state each spine has at most one live parent debug
\* container attached to it, and exactly one when it is in the registration map.
C4_OneRegistrationPerSpine ==
    \A s \in Spines :
        /\ Cardinality(LiveFor(s) \cap AttachedTo(s)) <= 1
        /\ Has(registeredSpines, s) => Cardinality(LiveFor(s) \cap AttachedTo(s)) = 1

\* The skeleton renderDebug read in the call that just ended.
FrameSkeleton == SkeletonOf(skeleton[last.spine])

\* The indices of the bounding-box polygons with fewer than 3 vertices.
MalformedPolygons(sk) ==
    {i \in 1..Len(sk.polygons) : Len(sk.polygons[i]) < 6}

\* Whether a drawPolygon of these vertices is on the surface.
PolygonDrawn(surface, vertices) ==
    \E k \in 1..Len(surface) : surface[k] = <<"drawPolygon", vertices>>

\* C5: when a bounding-box polygon of the skeleton has fewer than 3 vertices
\* (fewer than 6 coordinates), renderDebug with drawBoundingBoxes enabled
\* raises an error for that polygon instead of drawing it.
C5_SmallPolygonRaises ==
    (/\ last.op = "renderDebug"
     /\ config["drawBoundingBoxes"]
     /\ MalformedPolygons(FrameSkeleton) # {}) =>
        /\ last.err = "Error"
        /\ \A i \in MalformedPolygons(FrameSkeleton) :
               ~PolygonDrawn(Bundle(last.spine).boundingBoxesPolygon,
                             FrameSkeleton.polygons[i])

\* The commands that put a shape, a line or a curve on a Graphics (the others
\* set a style or move the pen).
ShapeOps == {"drawPolygon", "drawRect", "drawCircle", "lineTo", "bezierCurveTo"}

IsShape(command) == command[1] \in ShapeOps

Shapes(surface) == SelectSeq(surface, IsShape)

\* What a frame draws on display objects that were never drawn on.
FirstFrame(spine) ==
    RenderFrame(config, SkeletonOf(skeleton[spine]),
                [NewDebugDisplayObjects(spine) EXCEPT !.attached = TRUE]).d

\* C6: renderDebug is stateless per frame: after renderDebug the display
\* objects of the spine hold what the current pose and configuration draw on
\* fresh display objects, whatever the earlier frames drew; and a second
\* renderDebug right after the first, with the same pose and configuration,
\* leaves them as the first left them.
C6_StatelessPerFrame ==
    last.op = "renderDebug" =>
        /\ Bundle(last.spine) = FirstFrame(last.spine)
        /\ RenderFrame(config, FrameSkeleton, Bundle(last.spine)).d = Bundle(last.spine)

\* A frame drawn over an earlier frame, after the pose changed to the paths
\* and the bones were switched off.
C6_Witness ==
    /\ last.op = "renderDebug"
    /\ last.wasRegistered
    /\ skeleton[last.spine] = "paths"
    /\ ~config["drawBones"]
    /\ Shapes(Bundle(last.spine).pathsCurve) # << >>
    /\ Bundle(last.spine).bones = << >>

\* The lines drawn on a surface.
Lines(surface) == SelectSeq(surface, LAMBDA c : c[1] = "lineTo")

\* C7: each visual category is drawn only when its toggle is enabled: after
\* renderDebug a disabled toggle leaves the surfaces of its category without
\* shapes (drawBones: no bone graphic and no origin mark; drawMeshTriangles
\* and drawMeshHull: no triangle lines and no hull lines, each on its own).
C7_DisabledCategoryIsEmpty ==
    last.op = "renderDebug" =>
        LET d == Bundle(last.spine)
        IN  /\ ~config["drawBones"] =>
                   d.bones = << >> /\ Shapes(d.skeletonXY) = << >>
            /\ ~config["drawPaths"] =>
                   Shapes(d.pathsCurve) = << >> /\ Shapes(d.pathsLine) = << >>
            /\ ~config["drawBoundingBoxes"] =>
                   /\ Shapes(d.boundingBoxesRect) = << >>
                   /\ Shapes(d.boundingBoxesCircle) = << >>
                   /\ Shapes(d.boundingBoxesPolygon) = << >>
            /\ ~config["drawClipping"] => Shapes(d.clippingPolygon) = << >>
            /\ ~config["drawRegionAttachments"] =>
                   Shapes(d.regionAttachmentsShape) = << >>
            /\ ~config["drawMeshTriangles"] => Lines(d.meshTrianglesLine) = << >>
            /\ ~config["drawMeshHull"] => Lines(d.meshHullLine) = << >>

\* A frame over an earlier one with the mesh triangles off and the hull on:
\* the hull is drawn, the triangles are not.
C7_Witness ==
    /\ last.op = "renderDebug"
    /\ last.wasRegistered
    /\ skeleton[last.spine] = "rest"
    /\ ~config["drawMeshTriangles"]
    /\ config["drawMeshHull"]
    /\ Lines(Bundle(last.spine).meshHullLine) # << >>
    /\ Lines(Bundle(last.spine).meshTrianglesLine) = << >>

\* C8: after renderDebug(s), s is in the registration map with one bundle of
\* display objects, made for s, alive, and whose parent container is a child
\* of s; the call created that bundle when s was not registered and created
\* no bundle when s was.
C8_RenderRegistersFirst ==
    last.op = "renderDebug" =>
        /\ Has(registeredSpines, last.spine)
        /\ registeredSpines[last.spine] \in LiveFor(last.spine) \cap AttachedTo(last.spine)
        /\ last.created = (IF last.wasRegistered THEN 0 ELSE 1)
        /\ ~last.wasRegistered => registeredSpines[last.spine] = Len(objects)

\* renderDebug on a spine that registerSpine was never called for.
C8_Witness ==
    /\ last.op = "renderDebug"
    /\ ~last.wasRegistered
    /\ last.created = 1
    /\ Has(registeredSpines, last.spine)
    /\ Bundle(last.spine).attached

\* The slots that hold a region attachment without updateOffset.
RegionsWithoutUpdateOffset(sk) ==
    {i \in 1..Len(sk.slots) :
        /\ sk.slots[i].attachment.type = "Region"
        /\ ~sk.slots[i].attachment.hasUpdateOffset}

\* C9: for a region attachment without updateOffset, renderDebug with
\* drawRegionAttachments enabled completes without error and draws the
\* 4-vertex polygon of the attachment.
C9_RegionWithoutUpdateOffsetIsDrawn ==
    (/\ last.op = "renderDebug"
     /\ config["drawRegionAttachments"]
     /\ RegionsWithoutUpdateOffset(FrameSkeleton) # {}
     /\ last.err # "Error") =>
        /\ last.err = "none"
        /\ \A i \in RegionsWithoutUpdateOffset(FrameSkeleton) :
               PolygonDrawn(Bundle(last.spine).regionAttachmentsShape,
                            FrameSkeleton.slots[i].attachment.world)

\* The bones the claim says get a graphic: not named root, with a parent, and
\* with a start point that differs from the end point.
RECURSIVE BonesWithSegment(_, _)
BonesWithSegment(sk, i) ==
    IF i > Len(sk.bones) THEN << >>
    ELSE LET bone == sk.bones[i]
             start == <<sk.x + bone.tx, sk.y + bone.ty>>
             end == <<sk.x + bone.length * bone.a + bone.tx,
                      sk.y + bone.length * bone.b + bone.ty>>
         IN  IF bone.name # "root" /\ bone.hasParent /\ start # end
             THEN <<start>> \o BonesWithSegment(sk, i + 1)
             ELSE BonesWithSegment(sk, i + 1)

\* C10: after renderDebug with drawBones enabled the bones container holds
\* one graphic per bone that is not named root, has a parent and has a
\* segment of non-zero length, in the order of the bones, and none for the
\* others; and the bones container of a live bundle never holds more
\* graphics than the skeleton has bones.
C10_OneGraphicPerDrawnBone ==
    /\ (last.op = "renderDebug" /\ config["drawBones"]) =>
           [k \in 1..Len(Bundle(last.spine).bones) |->
               <<Bundle(last.spine).bones[k].x, Bundle(last.spine).bones[k].y>>]
               = BonesWithSegment(FrameSkeleton, 1)
    /\ \A i \in 1..Len(objects) :
           Len(objects[i].bones) <= Len(SkeletonOf(skeleton[objects[i].spine]).bones)

\* A frame over an earlier one: one graphic (the hip) for a skeleton of four bones.
C10_Witness ==
    /\ last.op = "renderDebug"
    /\ last.wasRegistered
    /\ config["drawBones"]
    /\ Len(FrameSkeleton.bones) = 4
    /\ Len(Bundle(last.spine).bones) = 1


\* The configuration that differs from cfg only in the value of drawDebug.
OtherDrawDebug(cfg) == [cfg EXCEPT !["drawDebug"] = ~@]

\* What renderDebug(spine) leaves when it is called in the current state by a
\* renderer whose fields are cfg: the map, the objects and the error thrown.
RenderDebugWith(cfg, spine) ==
    LET e == EnsureRegistered(registeredSpines, objects, spine)
        r == RenderFrame(cfg, SkeletonOf(skeleton[spine]), e.objs[e.reg[spine]])
    IN  [reg |-> e.reg, objs |-> [e.objs EXCEPT ![e.reg[spine]] = r.d], err |-> r.err]

\* C11: the drawDebug field has no effect on renderDebug: every renderDebug
\* call leaves the registration map, every display object and the outcome as
\* the same call leaves them in the run that differs only in the value of
\* drawDebug.  (registerSpine and unregisterSpine read no field, so two runs
\* of the same calls that agree before a call agree after it.)
C11_DrawDebugHasNoEffect ==
    [][last'.op = "renderDebug" =>
         LET other == RenderDebugWith(OtherDrawDebug(config), last'.spine)
         IN  /\ registeredSpines' = other.reg
             /\ objects' = other.objs
             /\ last'.err = other.err]_vars

\* A frame rendered with drawDebug switched off that drew the bones, the
\* region and the mesh all the same.
C11_Witness ==
    /\ last.op = "renderDebug"
    /\ ~config["drawDebug"]
    /\ skeleton[last.spine] = "rest"
    /\ Bundle(last.spine).bones # << >>
    /\ Shapes(Bundle(last.spine).regionAttachmentsShape) # << >>
    /\ Lines(Bundle(last.spine).meshHullLine) # << >>


\* The path attachments of the slots whose bone is active, in slot order.
RECURSIVE ActivePaths(_, _)
ActivePaths(sk, i) ==
    IF i > Len(sk.slots) THEN << >>
    ELSE IF sk.slots[i].boneActive /\ sk.slots[i].attachment.type = "Path"
         THEN <<sk.slots[i].attachment>> \o ActivePaths(sk, i + 1)
         ELSE ActivePaths(sk, i + 1)

\* The number k of knots of a path (worldVerticesLength = 6k) and its knot j
\* (1..k): each knot comes with a handle before it and a handle after it.
KnotCount(path) == Len(path.world) \div 6

Knot(path, j) == <<path.world[6 * (j - 1) + 3], path.world[6 * (j - 1) + 4]>>

\* The number of curves the claim gives a path.
CurveCount(path) == IF path.closed THEN KnotCount(path) ELSE KnotCount(path) - 1

\* Whether pathsCurve and pathsLine hold a line style followed by curves,
\* each a moveTo and a bezierCurveTo, with two handle lines per curve: from
\* the start of the curve to its first control point and from its end to
\* its second.
WellFormedCurves(pathsCurve, pathsLine) ==
    /\ Len(pathsCurve) >= 1 /\ pathsCurve[1][1] = "lineStyle"
    /\ Len(pathsLine) >= 1 /\ pathsLine[1][1] = "lineStyle"
    /\ Len(pathsCurve) % 2 = 1
    /\ Len(pathsLine) = 1 + 4 * ((Len(pathsCurve) - 1) \div 2)
    /\ Len(Lines(pathsLine)) = 2 * ((Len(pathsCurve) - 1) \div 2)
    /\ \A g \in 1..((Len(pathsCurve) - 1) \div 2) :
           LET move == pathsCurve[2 * g]
               bezier == pathsCurve[2 * g + 1]
           IN  /\ move[1] = "moveTo"
               /\ bezier[1] = "bezierCurveTo"
               /\ pathsLine[4 * g - 2] = <<"moveTo", move[2], move[3]>>
               /\ pathsLine[4 * g - 1] = <<"lineTo", bezier[2], bezier[3]>>
               /\ pathsLine[4 * g] = <<"moveTo", bezier[6], bezier[7]>>
               /\ pathsLine[4 * g + 1] = <<"lineTo", bezier[4], bezier[5]>>

\* The curves on pathsCurve, each with its start and end point.
CurvesOn(pathsCurve) ==
    [g \in 1..((Len(pathsCurve) - 1) \div 2) |->
        [start |-> <<pathsCurve[2 * g][2], pathsCurve[2 * g][3]>>,
         end |-> <<pathsCurve[2 * g + 1][6], pathsCurve[2 * g + 1][7]>>]]

\* The curves of one path as the claim states them: each consecutive curve
\* starts at the knot where the previous one ended.
CurvesAsClaimed(path, curves) ==
    \A i \in 2..Len(curves) : curves[i].start = curves[i - 1].end

\* The curves of one path as the code draws them: a closed path first gets
\* its closing curve, from the first knot to the last; then come the k-1
\* curves from each knot to the next, the first of them starting at the first
\* knot and each other one where the one before it ended.
CurvesAsDrawn(path, curves) ==
    LET k == KnotCount(path)
        closing == IF path.closed THEN 1 ELSE 0
    IN  /\ path.closed =>
               curves[1].start = Knot(path, 1) /\ curves[1].end = Knot(path, k)
        /\ \A j \in 1..(k - 1) :
               /\ curves[closing + j].start = Knot(path, j)
               /\ curves[closing + j].end = Knot(path, j + 1)
        /\ \A j \in 2..(k - 1) :
               curves[closing + j].start = curves[closing + j - 1].end

\* Whether the curves are, path by path, CurveCount(path) curves that are as
\* the claim states them (chained) or as the code draws them, and no more.
RECURSIVE PathsHold(_, _, _)
PathsHold(paths, curves, chained) ==
    IF paths = << >> THEN curves = << >>
    ELSE LET n == CurveCount(Head(paths))
         IN  /\ Len(curves) >= n
             /\ IF chained
                THEN CurvesAsClaimed(Head(paths), SubSeq(curves, 1, n))
                ELSE CurvesAsDrawn(Head(paths), SubSeq(curves, 1, n))
             /\ PathsHold(Tail(paths), SubSeq(curves, n + 1, Len(curves)), chained)

\* C12 as stated: for a path attachment with k knots on an active bone,
\* renderDebug with drawPaths enabled draws k-1 Bezier curves when the path is
\* open and k when it is closed, each consecutive curve starting at the knot
\* where the previous one ended, with two handle lines per curve; paths on
\* inactive bones draw nothing.
C12_CurvesChained ==
    (last.op = "renderDebug" /\ config["drawPaths"]) =>
        /\ WellFormedCurves(Bundle(last.spine).pathsCurve, Bundle(last.spine).pathsLine)
        /\ PathsHold(ActivePaths(FrameSkeleton, 1),
                     CurvesOn(Bundle(last.spine).pathsCurve), TRUE)

\* C12 as amended: k-1 curves when open and k when closed, two handle lines
\* per curve, nothing for paths on inactive bones; the k-1 curves from knot to
\* knot are chained from the first knot, and the closing curve of a closed
\* path is drawn before them, from the first knot to the last, so that the
\* curve after it starts at the first knot again.
C12_CurvesAsDrawn ==
    (last.op = "renderDebug" /\ config["drawPaths"]) =>
        /\ WellFormedCurves(Bundle(last.spine).pathsCurve, Bundle(last.spine).pathsLine)
        /\ PathsHold(ActivePaths(FrameSkeleton, 1),
                     CurvesOn(Bundle(last.spine).pathsCurve), FALSE)

\* A frame that drew the four paths on active bones: 2 + 3 + 1 + 4 curves.
C12_Witness ==
    /\ last.op = "renderDebug"
    /\ config["drawPaths"]
    /\ Len(ActivePaths(FrameSkeleton, 1)) = 4
    /\ \E i \in 1..Len(FrameSkeleton.slots) :
           ~FrameSkeleton.slots[i].boneActive /\ FrameSkeleton.slots[i].attachment.type = "Path"
    /\ Len(CurvesOn(Bundle(last.spine).pathsCurve)) = 10
    /\ Len(Lines(Bundle(last.spine).pathsLine)) = 20

====
